---- MODULE Spec2Model ----
(***************************************************************************)
(* A model of govaluate's EvaluableExpression: the compile entry points,   *)
(* the recursive stage evaluator with short-circuiting and type checks,    *)
(* and the introspection methods.                                          *)
(***************************************************************************)
EXTENDS Integers, Sequences, FiniteSets, TLC

VARIABLES
    expression,   \* the compiled EvaluableExpression every caller evaluates
    callers,      \* the goroutines that call Eval/Evaluate on it
    stack,        \* per caller: the evaluateStage activation records, top last
    parameters,   \* per caller: the Parameters the running call evaluates against
    given,        \* per caller: the argument the caller handed to Eval
    result,       \* per caller: (X1, X2) of the last finished call
    previous,     \* per caller: (X1, X2) of the call before that one
    overlapped,   \* per caller: its call took a step while another call was running
    log,          \* per caller: what the running/last call did, in order
    compiled,     \* compile model: (X1, X2) of the last constructor call
    passes,       \* compile model: the passes that constructor call ran, in order
    source,       \* compile model: the constructor call's entry point and input
    answer        \* compile model: the last introspection call and what it returned

evalVars == <<expression, callers, stack, parameters, given, result, previous, overlapped, log>>
compileVars == <<compiled, passes, source, answer>>
vars == <<expression, callers, stack, parameters, given, result, previous, overlapped, log,
          compiled, passes, source, answer>>

(***************************************************************************)
(* Values: Go interface{} values as <<dynamic type, payload>>.             *)
(***************************************************************************)
MaxNum == 1

Null == <<"nil", 0>>
Bool(b) == <<"bool", IF b THEN 1 ELSE 0>>
Float(n) == <<"float64", n>>
Str(n) == <<"string", n>>
GoInt(n) == <<"int", n>>

shortCircuitHolder == -1

isoDateFormat == "2006-01-02T15:04:05.999999999Z0700"

\* error values: <<message format, offending value, symbol or name>>
NoErr == <<"nil", Null, "">>
Panic == <<"panic", Null, "">>
LookupError(name) == <<"No parameter found", Null, name>>
FunctionError(name) == <<"function failed", Null, name>>

Ret(v, e) == [val |-> v, err |-> e]

(***************************************************************************)
(* Operator symbols and evaluation stages.                                 *)
(***************************************************************************)
NIL == "NIL"
LITERAL == "LITERAL"
VALUE == "VALUE"
FUNCTIONAL == "FUNCTIONAL"
AND == "AND"
OR == "OR"
COALESCE == "COALESCE"
TERNARY_TRUE == "TERNARY_TRUE"
TERNARY_FALSE == "TERNARY_FALSE"
PLUS == "PLUS"
MINUS == "MINUS"
NEGATE == "NEGATE"

\* OperatorSymbol.String(): the display form used in error messages
SymbolString(symbol) ==
    CASE symbol = AND -> "&&"
      [] symbol = OR -> "||"
      [] symbol = COALESCE -> "??"
      [] symbol = TERNARY_TRUE -> "?"
      [] symbol = TERNARY_FALSE -> ":"
      [] symbol = PLUS -> "+"
      [] symbol = MINUS -> "-"
      [] symbol = NEGATE -> "-"
      [] OTHER -> ""

NilStage == [symbol |-> NIL]

\* evaluationStage; id stands for the node's identity (its address)
NewStage(symbol, left, right, operator, leftCheck, rightCheck, bothCheck, format, value, name) ==
    [id |-> 0, symbol |-> symbol, leftStage |-> left, rightStage |-> right,
     operator |-> operator, leftTypeCheck |-> leftCheck,
     rightTypeCheck |-> rightCheck, typeCheck |-> bothCheck,
     typeErrorFormat |-> format, value |-> value, name |-> name]

isShortCircuitable(stage) ==
    stage.symbol \in {AND, OR, COALESCE, TERNARY_TRUE, TERNARY_FALSE}

\* leaf stages
LiteralStage(v) == NewStage(LITERAL, NilStage, NilStage, "literal", "", "", "", "", v, "")
VariableStage(n) == NewStage(VALUE, NilStage, NilStage, "parameter", "", "", "", "", Null, n)
FunctionStage(n) == NewStage(FUNCTIONAL, NilStage, NilStage, "function", "", "", "", "", Null, n)

\* operator stages, annotated as the planner annotates them
OperatorStage(symbol, left, right) ==
    CASE symbol \in {AND, OR} ->
            NewStage(symbol, left, right, "logical", "isBool", "isBool", "",
                     "logicalErrorFormat", Null, "")
      [] symbol = COALESCE ->
            NewStage(symbol, left, right, "coalesce", "", "", "", "", Null, "")
      [] symbol = TERNARY_TRUE ->
            NewStage(symbol, left, right, "ternaryIf", "isBool", "", "",
                     "ternaryErrorFormat", Null, "")
      [] symbol = TERNARY_FALSE ->
            NewStage(symbol, left, right, "ternaryElse", "", "", "", "", Null, "")
      [] symbol = PLUS ->
            NewStage(symbol, left, right, "add", "", "", "additionTypeCheck",
                     "modifierErrorFormat", Null, "")
      [] symbol = MINUS ->
            NewStage(symbol, left, right, "subtract", "isFloat64", "isFloat64", "",
                     "modifierErrorFormat", Null, "")
      [] symbol = NEGATE ->
            NewStage(symbol, NilStage, right, "negate", "", "isFloat64", "",
                     "prefixErrorFormat", Null, "")

RECURSIVE Relabel(_, _)
Relabel(stage, n) ==
    IF stage.symbol = NIL THEN stage
    ELSE [stage EXCEPT !.id = n,
                       !.leftStage = Relabel(stage.leftStage, 2 * n),
                       !.rightStage = Relabel(stage.rightStage, 2 * n + 1)]

RECURSIVE StagesOf(_)
StagesOf(stage) ==
    IF stage.symbol = NIL THEN {}
    ELSE {stage} \cup StagesOf(stage.leftStage) \cup StagesOf(stage.rightStage)

(***************************************************************************)
(* Type-check predicates (stageTypeCheck, stageCombinedTypeCheck).         *)
(***************************************************************************)
isBool(value) == value[1] = "bool"
isFloat64(value) == value[1] = "float64"
isString(value) == value[1] = "string"

ApplyCheck(check, value) ==
    CASE check = "isBool" -> isBool(value)
      [] check = "isFloat64" -> isFloat64(value)
      [] check = "isString" -> isString(value)

additionTypeCheck(left, right) ==
    \/ isFloat64(left) /\ isFloat64(right)
    \/ isString(left) /\ isString(right)

ApplyCombinedCheck(check, left, right) ==
    CASE check = "additionTypeCheck" -> additionTypeCheck(left, right)

\* (mutant) typeCheck with its test of check(value) inverted
typeCheckInverted(check, value, symbol, format) ==
    IF check = "" THEN NoErr
    ELSE IF ~ApplyCheck(check, value) THEN NoErr
    ELSE <<format, value, SymbolString(symbol)>>

\* typeCheck(check, value, symbol, format)
typeCheck(check, value, symbol, format) ==
    IF check = "" THEN NoErr
    ELSE IF ApplyCheck(check, value) THEN NoErr
    ELSE <<format, value, SymbolString(symbol)>>

\* the ChecksTypes block of evaluateStage: the error it returns, or NoErr
CheckTypes(ChecksTypes, stage, left, right) ==
    IF ~ChecksTypes THEN NoErr
    ELSE IF stage.typeCheck = ""
    THEN LET lerr == typeCheck(stage.leftTypeCheck, left, stage.symbol, stage.typeErrorFormat)
         IN IF lerr # NoErr THEN lerr
            ELSE typeCheck(stage.rightTypeCheck, right, stage.symbol, stage.typeErrorFormat)
    ELSE IF ~ApplyCombinedCheck(stage.typeCheck, left, right)
         THEN <<stage.typeErrorFormat, left, SymbolString(stage.symbol)>>
         ELSE NoErr

TypeErrorFormats ==
    {"logicalErrorFormat", "ternaryErrorFormat", "modifierErrorFormat", "prefixErrorFormat"}

IsTypeError(err) == err[1] \in TypeErrorFormats

(***************************************************************************)
(* Parameters: the binding provider handed to Eval.                        *)
(***************************************************************************)
Names == {"x", "y", "z"}
Absent == <<"absent", 0>>
Bindable ==
    {Absent, Null, Bool(TRUE), Bool(FALSE), Str(1), GoInt(1)}
        \cup {Float(n) : n \in 1..MaxNum}

EmptyMap == [n \in Names |-> Absent]
NilParameters == [kind |-> "nil", m |-> EmptyMap]
MapParameters(m) == [kind |-> "MapParameters", m |-> m]
sanitizedParameters(orig) == [kind |-> "sanitizedParameters", m |-> orig.m]
DUMMY_PARAMETERS == MapParameters(EmptyMap)

castToFloat64(value) == IF value[1] = "int" THEN Float(value[2]) ELSE value

\* Parameters.Get(name) -> (value, error)
Get(params, name) ==
    IF params.m[name] = Absent THEN Ret(Null, LookupError(name))
    ELSE IF params.kind = "sanitizedParameters"
         THEN Ret(castToFloat64(params.m[name]), NoErr)
         ELSE Ret(params.m[name], NoErr)

\* the parameters Eval evaluates against
EvalParameters(params) ==
    IF params.kind # "nil" THEN sanitizedParameters(params) ELSE DUMMY_PARAMETERS

(***************************************************************************)
(* The stages' operators.  A failed Go type assertion (reachable only with *)
(* ChecksTypes off) panics; the panic ends the call like an error does.    *)
(***************************************************************************)
Functions == {"one", "null", "fail"}

CallFunction(name) ==
    CASE name = "one" -> Ret(Float(1), NoErr)
      [] name = "null" -> Ret(Null, NoErr)
      [] name = "fail" -> Ret(Null, FunctionError(name))
      [] OTHER -> Ret(Bool(TRUE), NoErr)

Operate(stage, left, right, params) ==
    CASE stage.operator = "literal" -> Ret(stage.value, NoErr)
      [] stage.operator = "parameter" -> Get(params, stage.name)
      [] stage.operator = "function" -> CallFunction(stage.name)
      [] stage.operator = "logical" ->
            IF ~(isBool(left) /\ isBool(right)) THEN Ret(Null, Panic)
            ELSE IF stage.symbol = AND
                 THEN Ret(Bool(left = Bool(TRUE) /\ right = Bool(TRUE)), NoErr)
                 ELSE Ret(Bool(left = Bool(TRUE) \/ right = Bool(TRUE)), NoErr)
      [] stage.operator = "coalesce" ->
            IF left # Null THEN Ret(left, NoErr) ELSE Ret(right, NoErr)
      [] stage.operator = "ternaryIf" ->
            IF ~isBool(left) THEN Ret(Null, Panic)
            ELSE IF left = Bool(TRUE) THEN Ret(right, NoErr) ELSE Ret(Null, NoErr)
      [] stage.operator = "ternaryElse" ->
            IF left # Null THEN Ret(left, NoErr) ELSE Ret(right, NoErr)
      [] stage.operator = "add" ->
            IF isFloat64(left) /\ isFloat64(right) THEN Ret(Float(left[2] + right[2]), NoErr)
            ELSE IF isString(left) /\ isString(right)
                 THEN Ret(Str(10 * left[2] + right[2]), NoErr)
                 ELSE Ret(Null, Panic)
      [] stage.operator = "subtract" ->
            IF isFloat64(left) /\ isFloat64(right) THEN Ret(Float(left[2] - right[2]), NoErr)
            ELSE Ret(Null, Panic)
      [] stage.operator = "negate" ->
            IF isFloat64(right) THEN Ret(Float(0 - right[2]), NoErr)
            ELSE Ret(Null, Panic)

(***************************************************************************)
(* evaluateStage, as the recursive function it is.                         *)
(***************************************************************************)
\* (mutant) the switch without its AND case
ShortCircuitWithoutAnd(stage, left) ==
    IF ~isShortCircuitable(stage)
    THEN [done |-> FALSE, val |-> Null, right |-> Null]
    ELSE CASE stage.symbol = OR /\ left = Bool(TRUE) ->
                [done |-> TRUE, val |-> Bool(TRUE), right |-> Null]
           [] stage.symbol = COALESCE /\ left # Null ->
                [done |-> TRUE, val |-> left, right |-> Null]
           [] stage.symbol = TERNARY_TRUE /\ left = Bool(FALSE) ->
                [done |-> FALSE, val |-> Null, right |-> GoInt(shortCircuitHolder)]
           [] stage.symbol = TERNARY_FALSE /\ left # Null ->
                [done |-> FALSE, val |-> Null, right |-> GoInt(shortCircuitHolder)]
           [] OTHER -> [done |-> FALSE, val |-> Null, right |-> Null]

\* the short-circuit switch: return now with val, or go on with right preset
ShortCircuit(stage, left) ==
    IF ~isShortCircuitable(stage)
    THEN [done |-> FALSE, val |-> Null, right |-> Null]
    ELSE CASE stage.symbol = AND /\ left = Bool(FALSE) ->
                [done |-> TRUE, val |-> Bool(FALSE), right |-> Null]
           [] stage.symbol = OR /\ left = Bool(TRUE) ->
                [done |-> TRUE, val |-> Bool(TRUE), right |-> Null]
           [] stage.symbol = COALESCE /\ left # Null ->
                [done |-> TRUE, val |-> left, right |-> Null]
           [] stage.symbol = TERNARY_TRUE /\ left = Bool(FALSE) ->
                [done |-> FALSE, val |-> Null, right |-> GoInt(shortCircuitHolder)]
           [] stage.symbol = TERNARY_FALSE /\ left # Null ->
                [done |-> FALSE, val |-> Null, right |-> GoInt(shortCircuitHolder)]
           [] OTHER -> [done |-> FALSE, val |-> Null, right |-> Null]

RECURSIVE evaluateStage(_, _, _)
evaluateStage(ChecksTypes, stage, params) ==
    LET l == IF stage.leftStage.symbol # NIL
             THEN evaluateStage(ChecksTypes, stage.leftStage, params)
             ELSE Ret(Null, NoErr)
    IN  IF l.err # NoErr THEN Ret(Null, l.err)
        ELSE
        LET sc == ShortCircuit(stage, l.val)
        IN  IF sc.done THEN Ret(sc.val, NoErr)
            ELSE
            LET r == IF sc.right # GoInt(shortCircuitHolder) /\ stage.rightStage.symbol # NIL
                     THEN evaluateStage(ChecksTypes, stage.rightStage, params)
                     ELSE Ret(sc.right, NoErr)
            IN  IF r.err # NoErr THEN Ret(Null, r.err)
                ELSE
                LET terr == CheckTypes(ChecksTypes, stage, l.val, r.val)
                IN  IF terr # NoErr THEN Ret(Null, terr)
                    ELSE Operate(stage, l.val, r.val, params)

\* what EvaluableExpression.Eval(parameters) returns when it runs by itself
EvalAlone(this, params) ==
    IF this.evaluationStages.symbol = NIL THEN Ret(Null, NoErr)
    ELSE evaluateStage(this.ChecksTypes, this.evaluationStages, EvalParameters(params))

\* what EvaluableExpression.Evaluate(map) returns; a nil map has kind "nil"
EvaluateAlone(this, params) ==
    IF params.kind = "nil" THEN EvalAlone(this, NilParameters)
    ELSE EvalAlone(this, MapParameters(params.m))

(***************************************************************************)
(* Tokens and the compiled expression.                                     *)
(***************************************************************************)
Token(kind, value) == [Kind |-> kind, Value |-> value]

NUMERIC == "NUMERIC"
BOOLEAN_KIND == "BOOLEAN"
STRING_KIND == "STRING"
VARIABLE_KIND == "VARIABLE"
FUNCTION == "FUNCTION"
CLAUSE == "CLAUSE"
CLAUSE_CLOSE == "CLAUSE_CLOSE"
PREFIX == "PREFIX"
MODIFIER == "MODIFIER"
LOGICALOP == "LOGICALOP"
TERNARY == "TERNARY"

LiteralToken(value) ==
    CASE isBool(value) -> Token(BOOLEAN_KIND, IF value = Bool(TRUE) THEN "true" ELSE "false")
      [] isFloat64(value) -> Token(NUMERIC, ToString(value[2]))
      [] isString(value) -> Token(STRING_KIND, "a")

SymbolToken(symbol) ==
    CASE symbol \in {AND, OR, COALESCE} -> Token(LOGICALOP, SymbolString(symbol))
      [] symbol \in {TERNARY_TRUE, TERNARY_FALSE} -> Token(TERNARY, SymbolString(symbol))
      [] symbol \in {PLUS, MINUS} -> Token(MODIFIER, SymbolString(symbol))
      [] symbol = NEGATE -> Token(PREFIX, SymbolString(symbol))

\* the token sequence a stage tree was planned from
RECURSIVE TokensOf(_)
TokensOf(stage) ==
    CASE stage.symbol = NIL -> <<>>
      [] stage.symbol = LITERAL -> <<LiteralToken(stage.value)>>
      [] stage.symbol = VALUE -> <<Token(VARIABLE_KIND, stage.name)>>
      [] stage.symbol = FUNCTIONAL ->
            <<Token(FUNCTION, stage.name), Token(CLAUSE, "("), Token(CLAUSE_CLOSE, ")")>>
      [] OTHER ->
            LET inner(sub) ==
                    IF sub.symbol \in {NIL, LITERAL, VALUE, FUNCTIONAL, TERNARY_TRUE}
                    THEN TokensOf(sub)
                    ELSE <<Token(CLAUSE, "(")>> \o TokensOf(sub) \o <<Token(CLAUSE_CLOSE, ")")>>
            IN  inner(stage.leftStage) \o <<SymbolToken(stage.symbol)>> \o inner(stage.rightStage)

\* the EvaluableExpression a successful constructor call returns
NewExpression(text, tokens, stages) ==
    [QueryDateFormat |-> isoDateFormat, ChecksTypes |-> TRUE, tokens |-> tokens,
     evaluationStages |-> stages, inputExpression |-> text]

\* the zero value of the struct
ZeroExpression ==
    [QueryDateFormat |-> "", ChecksTypes |-> FALSE, tokens |-> <<>>,
     evaluationStages |-> NilStage, inputExpression |-> <<>>]

Planned(stage) ==
    LET tokens == TokensOf(stage)
    IN  NewExpression([i \in 1..Len(tokens) |-> tokens[i].Value], tokens, Relabel(stage, 1))

(***************************************************************************)
(* The compile passes.  An expression text is a sequence of lexemes.       *)
(***************************************************************************)
MaxLen == 4

Lexemes == {"1", "x", "y", "+", "-", "(", ")", "#"}
Identifiers == {"x", "y"}

LexError(lexeme) == <<"Invalid token", Null, lexeme>>
BalanceError == <<"Unbalanced parenthesis", Null, "">>
SyntaxError(kind) == <<"Invalid token transition", Null, kind>>
OptimizeError(value) == <<"Invalid literal", Null, value>>
PlanError(what) == <<"Unable to plan", Null, what>>

\* parseTokens(expression, functions): an identifier right before "(" names a
\* function, and its token holds the callable the table gives ("" if none);
\* "-" is a prefix unless it follows a value
RECURSIVE lexFrom(_, _, _, _)
lexFrom(text, functions, i, acc) ==
    IF i > Len(text) THEN [tokens |-> acc, err |-> NoErr]
    ELSE LET lexeme == text[i]
             before == IF acc = <<>> THEN "" ELSE acc[Len(acc)].Kind
             token ==
                CASE lexeme = "1" -> Token(NUMERIC, "1")
                  [] lexeme \in Identifiers ->
                        IF i < Len(text) /\ text[i + 1] = "("
                        THEN Token(FUNCTION, IF lexeme \in functions THEN lexeme ELSE "")
                        ELSE Token(VARIABLE_KIND, lexeme)
                  [] lexeme = "+" -> Token(MODIFIER, "+")
                  [] lexeme = "-" ->
                        IF before \in {NUMERIC, VARIABLE_KIND, CLAUSE_CLOSE}
                        THEN Token(MODIFIER, "-") ELSE Token(PREFIX, "-")
                  [] lexeme = "(" -> Token(CLAUSE, "(")
                  [] lexeme = ")" -> Token(CLAUSE_CLOSE, ")")
                  [] OTHER -> Token("", lexeme)
         IN  IF token.Kind = "" THEN [tokens |-> <<>>, err |-> LexError(lexeme)]
             ELSE lexFrom(text, functions, i + 1, Append(acc, token))

parseTokens(text, functions) == lexFrom(text, functions, 1, <<>>)

\* checkBalance(tokens): every close matches an opener, no opener is left over
RECURSIVE balanceFrom(_, _, _)
balanceFrom(tokens, i, open) ==
    IF i > Len(tokens) THEN (IF open = 0 THEN NoErr ELSE BalanceError)
    ELSE IF tokens[i].Kind = CLAUSE THEN balanceFrom(tokens, i + 1, open + 1)
    ELSE IF tokens[i].Kind = CLAUSE_CLOSE
         THEN (IF open = 0 THEN BalanceError ELSE balanceFrom(tokens, i + 1, open - 1))
         ELSE balanceFrom(tokens, i + 1, open)

checkBalance(tokens) == balanceFrom(tokens, 1, 0)

\* the adjacency table: the kinds that may follow a kind ("" is the start)
MayFollow(kind) ==
    CASE kind \in {"", MODIFIER} -> {NUMERIC, VARIABLE_KIND, FUNCTION, PREFIX, CLAUSE}
      [] kind = CLAUSE -> {NUMERIC, VARIABLE_KIND, FUNCTION, PREFIX, CLAUSE, CLAUSE_CLOSE}
      [] kind = PREFIX -> {NUMERIC, VARIABLE_KIND, FUNCTION, CLAUSE}
      [] kind = FUNCTION -> {CLAUSE}
      [] kind \in {NUMERIC, VARIABLE_KIND, CLAUSE_CLOSE} -> {MODIFIER, CLAUSE_CLOSE}

MayEnd(kind) == kind \in {NUMERIC, VARIABLE_KIND, CLAUSE_CLOSE}

\* checkExpressionSyntax(tokens): the first illegal transition, left to right
checkExpressionSyntax(tokens) ==
    LET bad == {i \in 1..Len(tokens) :
                    tokens[i].Kind \notin MayFollow(IF i = 1 THEN "" ELSE tokens[i - 1].Kind)}
    IN  IF bad # {}
        THEN SyntaxError(tokens[CHOOSE i \in bad : \A j \in bad : i <= j].Kind)
        ELSE IF tokens # <<>> /\ ~MayEnd(tokens[Len(tokens)].Kind)
             THEN SyntaxError("end")
             ELSE NoErr

\* optimizeTokens(tokens): a prefix minus right before a numeric literal is
\* folded into the literal; a literal that is no number cannot be negated
RECURSIVE optimizeFrom(_, _, _)
optimizeFrom(tokens, i, acc) ==
    IF i > Len(tokens) THEN [tokens |-> acc, err |-> NoErr]
    ELSE IF tokens[i].Kind = PREFIX /\ i < Len(tokens) /\ tokens[i + 1].Kind = NUMERIC
    THEN IF tokens[i + 1].Value = "1"
         THEN optimizeFrom(tokens, i + 2, Append(acc, Token(NUMERIC, "-1")))
         ELSE [tokens |-> tokens, err |-> OptimizeError(tokens[i + 1].Value)]
    ELSE optimizeFrom(tokens, i + 1, Append(acc, tokens[i]))

optimizeTokens(tokens) == optimizeFrom(tokens, 1, <<>>)

NumberOf(value) ==
    CASE value = "1" -> Float(1)
      [] value = "-1" -> Float(-1)
      [] OTHER -> Float(0)

NoPlan == [stage |-> NilStage, next |-> 0, ok |-> FALSE]

\* planStages(tokens): one operand, then operators with the operand to their
\* right, left-associative; a clause is planned by itself and is one operand
RECURSIVE planValue(_, _), planRest(_, _, _)
planValue(tokens, i) ==
    IF i > Len(tokens) THEN NoPlan
    ELSE LET token == tokens[i]
             clause(first) ==
                LET head == planValue(tokens, first)
                    inner == IF head.ok THEN planRest(tokens, head.stage, head.next) ELSE NoPlan
                IN  IF inner.ok /\ inner.next <= Len(tokens)
                            /\ tokens[inner.next].Kind = CLAUSE_CLOSE
                    THEN [stage |-> inner.stage, next |-> inner.next + 1, ok |-> TRUE]
                    ELSE NoPlan
         IN  CASE token.Kind = NUMERIC ->
                    [stage |-> LiteralStage(NumberOf(token.Value)), next |-> i + 1, ok |-> TRUE]
               [] token.Kind = VARIABLE_KIND ->
                    [stage |-> VariableStage(token.Value), next |-> i + 1, ok |-> TRUE]
               [] token.Kind = PREFIX ->
                    LET right == planValue(tokens, i + 1)
                    IN  IF right.ok
                        THEN [right EXCEPT !.stage = OperatorStage(NEGATE, NilStage, right.stage)]
                        ELSE NoPlan
               [] token.Kind = CLAUSE -> clause(i + 1)
               [] token.Kind = FUNCTION ->
                    IF token.Value = "" \/ i + 2 > Len(tokens) \/ tokens[i + 1].Kind # CLAUSE
                    THEN NoPlan
                    ELSE IF tokens[i + 2].Kind = CLAUSE_CLOSE
                         THEN [stage |-> FunctionStage(token.Value), next |-> i + 3, ok |-> TRUE]
                         ELSE LET args == clause(i + 2)
                              IN  IF args.ok
                                  THEN [args EXCEPT !.stage =
                                            [FunctionStage(token.Value) EXCEPT !.rightStage = args.stage]]
                                  ELSE NoPlan
               [] OTHER -> NoPlan

planRest(tokens, left, i) ==
    IF i <= Len(tokens) /\ tokens[i].Kind = MODIFIER
    THEN LET right == planValue(tokens, i + 1)
             symbol == IF tokens[i].Value = "+" THEN PLUS ELSE MINUS
         IN  IF right.ok
             THEN planRest(tokens, OperatorStage(symbol, left, right.stage), right.next)
             ELSE NoPlan
    ELSE [stage |-> left, next |-> i, ok |-> TRUE]

planStages(tokens) ==
    IF tokens = <<>> THEN [stage |-> NilStage, err |-> NoErr]
    ELSE LET head == planValue(tokens, 1)
             whole == IF head.ok THEN planRest(tokens, head.stage, head.next) ELSE NoPlan
         IN  IF whole.ok /\ whole.next = Len(tokens) + 1
             THEN [stage |-> Relabel(whole.stage, 1), err |-> NoErr]
             ELSE [stage |-> NilStage, err |-> PlanError("stages")]

(***************************************************************************)
(* The constructors and the introspection methods.                         *)
(***************************************************************************)
Failed(err, ran) == [X1 |-> ZeroExpression, X2 |-> err, isNil |-> TRUE, passes |-> ran]
Built(this, ran) == [X1 |-> this, X2 |-> NoErr, isNil |-> FALSE, passes |-> ran]

\* (mutant) the adjacency check runs before the balance check
CompileTextSyntaxFirst(text, functions) ==
    LET lex == parseTokens(text, functions)
    IN  IF lex.err # NoErr THEN Failed(lex.err, <<"parseTokens">>)
        ELSE IF checkExpressionSyntax(lex.tokens) # NoErr
        THEN Failed(checkExpressionSyntax(lex.tokens), <<"parseTokens", "checkExpressionSyntax">>)
        ELSE IF checkBalance(lex.tokens) # NoErr
        THEN Failed(checkBalance(lex.tokens),
                    <<"parseTokens", "checkExpressionSyntax", "checkBalance">>)
        ELSE LET opt == optimizeTokens(lex.tokens)
                 plan == planStages(opt.tokens)
             IN  IF opt.err # NoErr
                 THEN Failed(opt.err, <<"parseTokens", "checkBalance",
                                        "checkExpressionSyntax", "optimizeTokens">>)
                 ELSE IF plan.err # NoErr
                 THEN Failed(plan.err, <<"parseTokens", "checkBalance", "checkExpressionSyntax",
                                         "optimizeTokens", "planStages">>)
                 ELSE Built(NewExpression(text, opt.tokens, plan.stage),
                            <<"parseTokens", "checkBalance", "checkExpressionSyntax",
                              "optimizeTokens", "planStages">>)

\* what NewEvaluableExpressionWithFunctions(expression, functions) returns,
\* and the passes it ran
CompileText(text, functions) ==
    LET lex == parseTokens(text, functions)
    IN  IF lex.err # NoErr THEN Failed(lex.err, <<"parseTokens">>)
        ELSE IF checkBalance(lex.tokens) # NoErr
        THEN Failed(checkBalance(lex.tokens), <<"parseTokens", "checkBalance">>)
        ELSE IF checkExpressionSyntax(lex.tokens) # NoErr
        THEN Failed(checkExpressionSyntax(lex.tokens),
                    <<"parseTokens", "checkBalance", "checkExpressionSyntax">>)
        ELSE LET opt == optimizeTokens(lex.tokens)
                 plan == planStages(opt.tokens)
             IN  IF opt.err # NoErr
                 THEN Failed(opt.err, <<"parseTokens", "checkBalance",
                                        "checkExpressionSyntax", "optimizeTokens">>)
                 ELSE IF plan.err # NoErr
                 THEN Failed(plan.err, <<"parseTokens", "checkBalance", "checkExpressionSyntax",
                                         "optimizeTokens", "planStages">>)
                 ELSE Built(NewExpression(text, opt.tokens, plan.stage),
                            <<"parseTokens", "checkBalance", "checkExpressionSyntax",
                              "optimizeTokens", "planStages">>)

\* (mutant) the token entry point without the adjacency check
CompileTokensUnchecked(tokens) ==
    IF checkBalance(tokens) # NoErr
    THEN Failed(checkBalance(tokens), <<"checkBalance">>)
    ELSE LET opt == optimizeTokens(tokens)
             plan == planStages(opt.tokens)
         IN  IF opt.err # NoErr
             THEN Failed(opt.err, <<"checkBalance", "optimizeTokens">>)
             ELSE IF plan.err # NoErr
             THEN Failed(plan.err, <<"checkBalance", "optimizeTokens", "planStages">>)
             ELSE Built(NewExpression(<<>>, opt.tokens, plan.stage),
                        <<"checkBalance", "optimizeTokens", "planStages">>)

\* what NewEvaluableExpressionFromTokens(tokens) returns, and the passes it ran
CompileTokens(tokens) ==
    IF checkBalance(tokens) # NoErr
    THEN Failed(checkBalance(tokens), <<"checkBalance">>)
    ELSE IF checkExpressionSyntax(tokens) # NoErr
    THEN Failed(checkExpressionSyntax(tokens), <<"checkBalance", "checkExpressionSyntax">>)
    ELSE LET opt == optimizeTokens(tokens)
             plan == planStages(opt.tokens)
         IN  IF opt.err # NoErr
             THEN Failed(opt.err, <<"checkBalance", "checkExpressionSyntax", "optimizeTokens">>)
             ELSE IF plan.err # NoErr
             THEN Failed(plan.err, <<"checkBalance", "checkExpressionSyntax",
                                     "optimizeTokens", "planStages">>)
             ELSE Built(NewExpression(<<>>, opt.tokens, plan.stage),
                        <<"checkBalance", "checkExpressionSyntax", "optimizeTokens", "planStages">>)

\* EvaluableExpression.Tokens()
Tokens(this) == this.tokens

\* EvaluableExpression.String()
String(this) == this.inputExpression

\* EvaluableExpression.Vars()
RECURSIVE varsFrom(_, _, _)
varsFrom(tokens, i, varlist) ==
    IF i > Len(tokens) THEN varlist
    ELSE IF tokens[i].Kind = VARIABLE_KIND
         THEN varsFrom(tokens, i + 1, Append(varlist, tokens[i].Value))
         ELSE varsFrom(tokens, i + 1, varlist)

Vars(this) == varsFrom(Tokens(this), 1, <<>>)

(***************************************************************************)
(* The stage trees the evaluation model is run on.                         *)
(***************************************************************************)
LeftOperands ==
    {VariableStage("x"), LiteralStage(Bool(FALSE)), LiteralStage(Float(1))}
RightOperands ==
    {VariableStage("y")} \cup {FunctionStage(f) : f \in Functions}
BinarySymbols == {AND, OR, COALESCE, PLUS, MINUS}
OuterSymbols == {AND, COALESCE, PLUS}
InnerSymbols == {OR, MINUS}

Shallow ==
    {OperatorStage(s, l, r) : s \in BinarySymbols, l \in LeftOperands, r \in RightOperands}
        \cup {OperatorStage(NEGATE, NilStage, r) : r \in RightOperands}
        \cup LeftOperands

Ternaries ==
    {OperatorStage(TERNARY_FALSE, OperatorStage(TERNARY_TRUE, c, a), b) :
        c \in {VariableStage("x"), LiteralStage(Bool(TRUE)), LiteralStage(Bool(FALSE))},
        a \in {VariableStage("y"), FunctionStage("null"), FunctionStage("fail")},
        b \in {VariableStage("z"), FunctionStage("one")}}

Nested ==
    {OperatorStage(s, OperatorStage(t, VariableStage("x"), VariableStage("y")),
                   VariableStage("z")) : s \in OuterSymbols, t \in InnerSymbols}
        \cup
    {OperatorStage(s, VariableStage("x"),
                   OperatorStage(t, VariableStage("y"), VariableStage("z"))) :
        s \in OuterSymbols, t \in InnerSymbols}

\* the plans the concurrent callers share
ConcurrentExpressions ==
    {Planned(s) : s \in
        {OperatorStage(AND, VariableStage("x"), VariableStage("y")),
         OperatorStage(COALESCE, VariableStage("x"), FunctionStage("one")),
         OperatorStage(TERNARY_FALSE,
                       OperatorStage(TERNARY_TRUE, VariableStage("x"), FunctionStage("fail")),
                       VariableStage("y"))}}
        \cup {[Planned(OperatorStage(OR, VariableStage("x"), VariableStage("y")))
                    EXCEPT !.ChecksTypes = FALSE]}

Expressions ==
    {Planned(s) : s \in Shallow \cup Ternaries \cup Nested}
        \cup {[Planned(s) EXCEPT !.ChecksTypes = FALSE] : s \in Shallow \cup Ternaries \cup Nested}
        \cup {ZeroExpression}

(***************************************************************************)
(* Evaluation, step by step: each caller runs evaluateStage on its own     *)
(* stack of activation records; steps of different callers interleave.     *)
(***************************************************************************)
Callers == {1, 2}

Pending == Ret(Null, <<"pending", Null, "">>)

\* an activation record of evaluateStage: its stage, its position, its locals
\* left and right, and (ret) what the call it is waiting for returned
Frame(stage) ==
    [stage |-> stage, pc |-> "left", left |-> Null, right |-> Null, ret |-> Ret(Null, NoErr)]

Event(e, id, l, r, err) == [e |-> e, id |-> id, l |-> l, r |-> r, err |-> err]

Top(c) == stack[c][Len(stack[c])]
SetTop(frames, f) == [frames EXCEPT ![Len(frames)] = f]

\* the variable names an expression's tokens mention
VarNames(this) ==
    {this.tokens[i].Value : i \in {j \in 1..Len(this.tokens) : this.tokens[j].Kind = VARIABLE_KIND}}

ConcurrentBindable == {Absent, Null, Bool(FALSE)}

NoArgument == [kind |-> "none", m |-> EmptyMap]

\* the bindings of the expression's variables (a binding of a name the
\* expression never reads changes nothing, so those stay absent)
Bindings(this, values) ==
    {b \in [Names -> values] : \A n \in Names \ VarNames(this) : b[n] = Absent}

\* every variable the expression reads bound to true
AllTrue(this) == [n \in Names |-> IF n \in VarNames(this) THEN Bool(TRUE) ELSE Absent]

\* the arguments caller c may hand to Eval: nil or a map on its first call.
\* A caller by itself calls again and again, with the same argument, nil or
\* the all-true map; callers that run side by side make one call each.
Arguments(c) ==
    IF given[c] = NoArgument
    THEN {NilParameters} \cup
         {MapParameters(m) : m \in Bindings(expression,
                IF Cardinality(callers) = 1 THEN Bindable ELSE ConcurrentBindable)}
    ELSE IF Cardinality(callers) = 1
         THEN {given[c], NilParameters, MapParameters(AllTrue(expression))}
         ELSE {}

\* (mutant) the returned value sits in a variable all evaluations share:
\* every activation waiting for a child sees it
ReturnedShared(frames, c, r) ==
    [d \in DOMAIN frames |->
        IF d = c
        THEN IF Len(frames[c]) = 1 THEN <<>>
             ELSE SetTop(SubSeq(frames[c], 1, Len(frames[c]) - 1),
                         [frames[c][Len(frames[c]) - 1] EXCEPT !.ret = r])
        ELSE IF frames[d] # <<>> /\ frames[d][Len(frames[d])].pc \in {"leftReturned", "rightReturned"}
             THEN SetTop(frames[d], [frames[d][Len(frames[d])] EXCEPT !.ret = r])
             ELSE frames[d]]

\* the stacks after caller c's running activation returns r to its caller
Returned(frames, c, r) ==
    [frames EXCEPT ![c] =
        IF Len(@) = 1 THEN <<>>
        ELSE SetTop(SubSeq(@, 1, Len(@) - 1), [@[Len(@) - 1] EXCEPT !.ret = r])]

Return(c, r, events) ==
    /\ stack' = Returned(stack, c, r)
    /\ log' = [log EXCEPT ![c] = @ \o events \o <<Event("return", Top(c).stage.id, r.val, Null, r.err)>>]
    /\ result' = IF Len(stack[c]) = 1 THEN [result EXCEPT ![c] = r] ELSE result

Goto(c, f, events) ==
    /\ stack' = [stack EXCEPT ![c] = SetTop(@, f)]
    /\ log' = [log EXCEPT ![c] = @ \o events]
    /\ UNCHANGED result

Call(c, f, child) ==
    /\ stack' = [stack EXCEPT ![c] = Append(SetTop(@, f), Frame(child))]
    /\ log' = [log EXCEPT ![c] = Append(@, Event("enter", child.id, Null, Null, NoErr))]
    /\ UNCHANGED result

\* what a step of caller c's evaluateStage leaves alone
Locals(c) ==
    /\ overlapped' = [overlapped EXCEPT ![c] = @ \/ \E d \in callers \ {c} : stack[d] # <<>>]
    /\ UNCHANGED <<expression, callers, parameters, given, previous, compileVars>>

\* Eval: the entry, up to the call of evaluateStage on the root
Begin(c, params) ==
    /\ stack[c] = <<>>
    /\ given' = [given EXCEPT ![c] = params]
    /\ previous' = [previous EXCEPT ![c] = result[c]]
    /\ overlapped' = [overlapped EXCEPT ![c] = FALSE]
    /\ IF expression.evaluationStages.symbol = NIL
       THEN /\ result' = [result EXCEPT ![c] = Ret(Null, NoErr)]
            /\ log' = [log EXCEPT ![c] = <<>>]
            /\ UNCHANGED <<stack, parameters>>
       ELSE /\ parameters' = [parameters EXCEPT ![c] = EvalParameters(params)]
            /\ stack' = [stack EXCEPT ![c] = <<Frame(expression.evaluationStages)>>]
            /\ log' = [log EXCEPT ![c] =
                    <<Event("enter", expression.evaluationStages.id, Null, Null, NoErr)>>]
            /\ result' = [result EXCEPT ![c] = Pending]
    /\ UNCHANGED <<expression, callers, compileVars>>

Eval(c, params) == Begin(c, params)

Evaluate(c, params) ==
    IF params.kind = "nil" THEN Begin(c, NilParameters)
    ELSE Begin(c, MapParameters(params.m))

\* if stage.leftStage != nil { left, err = this.evaluateStage(stage.leftStage, ...) }
EvalLeft(c) ==
    /\ stack[c] # <<>> /\ Top(c).pc = "left"
    /\ IF Top(c).stage.leftStage.symbol # NIL
       THEN Call(c, [Top(c) EXCEPT !.pc = "leftReturned"], Top(c).stage.leftStage)
       ELSE Goto(c, [Top(c) EXCEPT !.pc = "short"], <<>>)
    /\ Locals(c)

\* (mutant) the left child's error is dropped and the stage goes on
LeftReturnedIgnoringError(c) ==
    /\ stack[c] # <<>> /\ Top(c).pc = "leftReturned"
    /\ Goto(c, [Top(c) EXCEPT !.left = Top(c).ret.val, !.pc = "short"], <<>>)
    /\ Locals(c)

\* if err != nil { return nil, err }
LeftReturned(c) ==
    /\ stack[c] # <<>> /\ Top(c).pc = "leftReturned"
    /\ IF Top(c).ret.err # NoErr
       THEN Return(c, Ret(Null, Top(c).ret.err), <<>>)
       ELSE Goto(c, [Top(c) EXCEPT !.left = Top(c).ret.val, !.pc = "short"], <<>>)
    /\ Locals(c)

\* if stage.isShortCircuitable() { switch stage.symbol ... }
ShortCircuitStep(c) ==
    /\ stack[c] # <<>> /\ Top(c).pc = "short"
    /\ LET sc == ShortCircuit(Top(c).stage, Top(c).left)
           seen == <<Event("left", Top(c).stage.id, Top(c).left, Null, NoErr)>>
       IN  IF sc.done
           THEN Return(c, Ret(sc.val, NoErr), seen)
           ELSE Goto(c, [Top(c) EXCEPT !.right = sc.right, !.pc = "right"], seen)
    /\ Locals(c)

\* if right != shortCircuitHolder && stage.rightStage != nil { right, err = ... }
EvalRight(c) ==
    /\ stack[c] # <<>> /\ Top(c).pc = "right"
    /\ IF Top(c).right # GoInt(shortCircuitHolder) /\ Top(c).stage.rightStage.symbol # NIL
       THEN Call(c, [Top(c) EXCEPT !.pc = "rightReturned"], Top(c).stage.rightStage)
       ELSE Goto(c, [Top(c) EXCEPT !.pc = "check"], <<>>)
    /\ Locals(c)

RightReturned(c) ==
    /\ stack[c] # <<>> /\ Top(c).pc = "rightReturned"
    /\ IF Top(c).ret.err # NoErr
       THEN Return(c, Ret(Null, Top(c).ret.err), <<>>)
       ELSE Goto(c, [Top(c) EXCEPT !.right = Top(c).ret.val, !.pc = "check"], <<>>)
    /\ Locals(c)

\* if this.ChecksTypes { ... }
TypeCheckStep(c) ==
    /\ stack[c] # <<>> /\ Top(c).pc = "check"
    /\ LET f == Top(c)
           terr == CheckTypes(expression.ChecksTypes, f.stage, f.left, f.right)
           seen == <<Event("operands", f.stage.id, f.left, f.right, NoErr)>> \o
                   IF expression.ChecksTypes
                   THEN <<Event("check", f.stage.id, f.left, f.right, terr)>> ELSE <<>>
       IN  IF terr # NoErr
           THEN Return(c, Ret(Null, terr), seen)
           ELSE Goto(c, [f EXCEPT !.pc = "operate"], seen)
    /\ Locals(c)

\* (mutant) the root's value is cached in the plan as a literal stage
OperateStepCaching(c) ==
    /\ stack[c] # <<>> /\ Top(c).pc = "operate"
    /\ LET f == Top(c)
           r == Operate(f.stage, f.left, f.right, parameters[c])
       IN  /\ Return(c, r, <<Event("operator", f.stage.id, f.left, f.right, r.err)>>)
           /\ expression' =
                IF Len(stack[c]) = 1 /\ r.err = NoErr
                THEN [expression EXCEPT !.evaluationStages = Relabel(LiteralStage(r.val), 1)]
                ELSE expression
    /\ overlapped' = [overlapped EXCEPT ![c] = @ \/ \E d \in callers \ {c} : stack[d] # <<>>]
    /\ UNCHANGED <<callers, parameters, given, previous, compileVars>>

\* return stage.operator(left, right, parameters)
OperateStep(c) ==
    /\ stack[c] # <<>> /\ Top(c).pc = "operate"
    /\ LET f == Top(c)
           r == Operate(f.stage, f.left, f.right, parameters[c])
       IN  Return(c, r, <<Event("operator", f.stage.id, f.left, f.right, r.err)>>)
    /\ Locals(c)

InitCaller ==
    /\ stack = [c \in Callers |-> <<>>]
    /\ parameters = [c \in Callers |-> DUMMY_PARAMETERS]
    /\ given = [c \in Callers |-> NoArgument]
    /\ result = [c \in Callers |-> Pending]
    /\ previous = [c \in Callers |-> Pending]
    /\ overlapped = [c \in Callers |-> FALSE]
    /\ log = [c \in Callers |-> <<>>]

InitCompile ==
    /\ compiled = [X1 |-> ZeroExpression, X2 |-> NoErr, isNil |-> TRUE]
    /\ passes = <<>>
    /\ source = [entry |-> "", text |-> <<>>, functions |-> {}, tokens |-> <<>>]
    /\ answer = [method |-> "", value |-> <<>>]

Init ==
    /\ callers = {1}
    /\ expression \in Expressions
    /\ InitCaller
    /\ InitCompile

Next ==
    \/ \E c \in callers : \E p \in Arguments(c) : Eval(c, p)
    \/ \E c \in callers : \E p \in Arguments(c) : Evaluate(c, p)
    \/ \E c \in callers : EvalLeft(c)
    \/ \E c \in callers : LeftReturned(c)
    \/ \E c \in callers : ShortCircuitStep(c)
    \/ \E c \in callers : EvalRight(c)
    \/ \E c \in callers : RightReturned(c)
    \/ \E c \in callers : TypeCheckStep(c)
    \/ \E c \in callers : OperateStep(c)

Spec == Init /\ [][Next]_vars

(***************************************************************************)
(* Construction and introspection: one constructor call, then any calls of *)
(* Tokens, String and Vars on the expression it returned.                  *)
(***************************************************************************)
Texts == UNION {[1..n -> Lexemes] : n \in 0..MaxLen}
FunctionTables == SUBSET {"y"}

TokenAlphabet ==
    {Token(NUMERIC, "1"), Token(NUMERIC, "?"), Token(VARIABLE_KIND, "x"),
     Token(FUNCTION, "y"), Token(MODIFIER, "+"), Token(PREFIX, "-"),
     Token(CLAUSE, "("), Token(CLAUSE_CLOSE, ")")}
TokenInputs == UNION {[1..n -> TokenAlphabet] : n \in 0..MaxLen}

Constructed(entry, text, functions, tokens, got) ==
    /\ source' = [entry |-> entry, text |-> text, functions |-> functions, tokens |-> tokens]
    /\ compiled' = [X1 |-> got.X1, X2 |-> got.X2, isNil |-> got.isNil]
    /\ passes' = got.passes
    /\ UNCHANGED <<answer, evalVars>>

NewEvaluableExpressionWithFunctions(text, functions) ==
    /\ source.entry = ""
    /\ Constructed("text", text, functions, <<>>, CompileText(text, functions))

NewEvaluableExpression(text) ==
    /\ source.entry = ""
    /\ Constructed("text", text, {}, <<>>, CompileText(text, {}))

NewEvaluableExpressionFromTokens(tokens) ==
    /\ source.entry = ""
    /\ Constructed("tokens", <<>>, {}, tokens, CompileTokens(tokens))

Answered(method, value) ==
    /\ answer' = [method |-> method, value |-> value]
    /\ UNCHANGED <<compiled, passes, source, evalVars>>

CallTokens ==
    /\ ~compiled.isNil
    /\ Answered("Tokens", Tokens(compiled.X1))

CallString ==
    /\ ~compiled.isNil
    /\ Answered("String", String(compiled.X1))

CallVars ==
    /\ ~compiled.isNil
    /\ Answered("Vars", Vars(compiled.X1))

InitConstruct ==
    /\ callers = {}
    /\ expression = ZeroExpression
    /\ InitCaller
    /\ InitCompile

\* a behaviour makes one constructor call: the inputs left to try
Untried(inputs) == IF source.entry = "" THEN inputs ELSE {}

NextConstruct ==
    \/ \E t \in Untried(Texts) : \E f \in FunctionTables :
            NewEvaluableExpressionWithFunctions(t, f)
    \/ \E t \in Untried(Texts) : NewEvaluableExpression(t)
    \/ \E t \in Untried(TokenInputs) : NewEvaluableExpressionFromTokens(t)
    \/ CallTokens
    \/ CallString
    \/ CallVars

SpecConstruct == InitConstruct /\ [][NextConstruct]_vars

\* several goroutines evaluate one compiled expression at the same time
InitConcurrent ==
    /\ callers = Callers
    /\ expression \in ConcurrentExpressions
    /\ InitCaller
    /\ InitCompile

SpecConcurrent == InitConcurrent /\ [][Next]_vars

(***************************************************************************)
(* Reading a call's log.                                                   *)
(***************************************************************************)
StageAt(id) == CHOOSE s \in StagesOf(expression.evaluationStages) : s.id = id

\* stage j lies in the subtree rooted at stage root
RECURSIVE Under(_, _)
Under(j, root) ==
    IF j < root THEN FALSE ELSE IF j = root THEN TRUE ELSE Under(j \div 2, root)

Finished(c) == stack[c] = <<>> /\ given[c] # NoArgument

Happened(c, e, id) == \E i \in 1..Len(log[c]) : log[c][i].e = e /\ log[c][i].id = id

\* the left value on which evaluateStage leaves a stage at once, with the value it returns
LeavesEarly(symbol, left) ==
    \/ symbol = AND /\ left = Bool(FALSE)
    \/ symbol = OR /\ left = Bool(TRUE)
    \/ symbol = COALESCE /\ left # Null

(***************************************************************************)
(* C1: for a stage with symbol AND, OR or COALESCE whose left value is     *)
(* false, true or non-null respectively, evaluateStage returns that value  *)
(* with no error; nothing in the right child stage is evaluated, no type   *)
(* check is run and the operator is not invoked.                           *)
(***************************************************************************)
C1_ShortCircuit ==
    \A c \in callers : \A i \in 1..Len(log[c]) :
        LET ev == log[c][i]
        IN  (ev.e = "left" /\ LeavesEarly(StageAt(ev.id).symbol, ev.l)) =>
                /\ i < Len(log[c])
                /\ log[c][i + 1] = Event("return", ev.id, ev.l, Null, NoErr)
                /\ \A j \in 1..Len(log[c]) :
                        /\ ~Under(log[c][j].id, 2 * ev.id + 1)
                        /\ log[c][j].id = ev.id =>
                                log[c][j].e \notin {"operands", "check", "operator"}

\* "false && fail()" has returned false: the failing function never ran
C1_Witness ==
    \E c \in callers :
        /\ Finished(c)
        /\ expression.evaluationStages.symbol = AND
        /\ expression.evaluationStages.rightStage.name = "fail"
        /\ Happened(c, "left", 1)
        /\ result[c] = Ret(Bool(FALSE), NoErr)

\* what stage id returned to its caller in c's call
ReturnOf(c, id) ==
    LET i == CHOOSE k \in 1..Len(log[c]) : log[c][k].e = "return" /\ log[c][k].id = id
    IN  Ret(log[c][i].l, log[c][i].err)

(***************************************************************************)
(* C2: for a ternary c ? a : b (TERNARY_FALSE over TERNARY_TRUE(c, a) and  *)
(* b) and every value of the branches: when c is true the call returns     *)
(* what a returns and b is never evaluated; when c is false it returns     *)
(* what b returns and a is never evaluated.                                *)
(***************************************************************************)
C2_Ternary ==
    \A c \in callers :
        (/\ Finished(c)
         /\ expression.evaluationStages.symbol = TERNARY_FALSE
         /\ expression.evaluationStages.leftStage.symbol = TERNARY_TRUE
         /\ Happened(c, "return", 4)) =>
            /\ ReturnOf(c, 4) = Ret(Bool(TRUE), NoErr) =>
                    /\ Happened(c, "enter", 5)
                    /\ ~Happened(c, "enter", 3)
                    /\ result[c] = ReturnOf(c, 5)
            /\ ReturnOf(c, 4) = Ret(Bool(FALSE), NoErr) =>
                    /\ Happened(c, "enter", 3)
                    /\ ~Happened(c, "enter", 5)
                    /\ result[c] = ReturnOf(c, 3)

\* a stage's predicates, applied as declared
Rejects(stage, left, right) ==
    IF stage.typeCheck # "" THEN ~ApplyCombinedCheck(stage.typeCheck, left, right)
    ELSE \/ stage.leftTypeCheck # "" /\ ~ApplyCheck(stage.leftTypeCheck, left)
         \/ stage.rightTypeCheck # "" /\ ~ApplyCheck(stage.rightTypeCheck, right)

\* c's call invoked stage id's operator on (left, right), or is about to
Invokes(c, id, left, right) ==
    \/ \E j \in 1..Len(log[c]) :
            log[c][j].e = "operator" /\ log[c][j].id = id
                /\ log[c][j].l = left /\ log[c][j].r = right
    \/ /\ stack[c] # <<>>
       /\ Top(c).stage.id = id /\ Top(c).pc = "operate"
       /\ Top(c).left = left /\ Top(c).right = right

(***************************************************************************)
(* C3: with ChecksTypes true, a stage whose operands are rejected by its   *)
(* left, right or combined predicate returns a type error and its operator *)
(* is never invoked; a stage whose operands are accepted goes on to its    *)
(* operator.  With ChecksTypes false no predicate is consulted, no type    *)
(* error is returned, and the operator is invoked on the operands.         *)
(***************************************************************************)
C3_TypeGate ==
    \A c \in callers : \A i \in 1..Len(log[c]) :
        LET ev == log[c][i]
            n == Len(log[c])
            rejected == Rejects(StageAt(ev.id), ev.l, ev.r)
        IN  /\ (ev.e = "operands" /\ expression.ChecksTypes) =>
                    /\ i < n /\ log[c][i + 1].e = "check" /\ log[c][i + 1].id = ev.id
                    /\ rejected =>
                            /\ i + 2 <= n
                            /\ log[c][i + 2].e = "return" /\ log[c][i + 2].id = ev.id
                            /\ log[c][i + 2].l = Null /\ IsTypeError(log[c][i + 2].err)
                            /\ ~Happened(c, "operator", ev.id)
                    /\ ~rejected => Invokes(c, ev.id, ev.l, ev.r)
            /\ (ev.e = "operands" /\ ~expression.ChecksTypes) =>
                    Invokes(c, ev.id, ev.l, ev.r)
            /\ ~expression.ChecksTypes => (ev.e # "check" /\ ~IsTypeError(ev.err))

\* "1 + y" with y a string has failed with a type error naming "+"
C3_Witness ==
    \E c \in callers :
        /\ Finished(c)
        /\ expression.ChecksTypes
        /\ expression.evaluationStages.symbol = PLUS
        /\ Happened(c, "operands", 1)
        /\ IsTypeError(result[c].err)
        /\ result[c].err[3] = "+"

\* the operands that make a rejected pair illegal: for separate predicates
\* the first one rejected; for a combined predicate an operand of a type no
\* legal pair contains, or, when both or neither are of such a type, either
OffendingOperands(stage, left, right) ==
    IF stage.typeCheck = ""
    THEN IF stage.leftTypeCheck # "" /\ ~ApplyCheck(stage.leftTypeCheck, left)
         THEN {left} ELSE {right}
    ELSE LET usable(v) == isFloat64(v) \/ isString(v)
         IN  IF usable(left) = usable(right) THEN {left, right}
             ELSE IF usable(left) THEN {right} ELSE {left}

(***************************************************************************)
(* C8: a failed type check returns an error carrying the offending value   *)
(* (the operand that failed the check, on whichever side it is) and the    *)
(* display form of the stage's operator symbol.                            *)
(***************************************************************************)
C8_OffendingValue ==
    \A c \in callers : \A i \in 1..Len(log[c]) :
        LET ev == log[c][i]
        IN  (ev.e = "check" /\ ev.err # NoErr) =>
                /\ ev.err[2] \in OffendingOperands(StageAt(ev.id), ev.l, ev.r)
                /\ ev.err[3] = SymbolString(StageAt(ev.id).symbol)

\* where an event stands in its stage's own sequence
Rank(e) ==
    CASE e = "enter" -> 1
      [] e = "left" -> 2
      [] e = "operands" -> 3
      [] e = "check" -> 4
      [] e = "operator" -> 5
      [] e = "return" -> 6

\* stage a lies in the right subtree of a stage whose left subtree holds stage b
RECURSIVE RightOf(_, _)
RightOf(a, b) ==
    IF a < 2 THEN FALSE
    ELSE (a % 2 = 1 /\ Under(b, a - 1)) \/ RightOf(a \div 2, b)

Errors(c) == {i \in 1..Len(log[c]) : log[c][i].e = "return" /\ log[c][i].err # NoErr}

(***************************************************************************)
(* C9: within every stage the left child is evaluated before the right     *)
(* child, both before the type checks, and these before the operator.  An  *)
(* error of a child is returned unchanged by its parent and nothing else   *)
(* of the parent runs; what the operator returns is returned unchanged.    *)
(* The error a call returns is the first one raised.                       *)
(***************************************************************************)
C9_Order ==
    \A c \in callers :
        LET n == Len(log[c])
        IN  /\ \A i \in 1..n : \A j \in (i + 1)..n :
                    LET a == log[c][i]
                        b == log[c][j]
                    IN  /\ a.id = b.id => Rank(a.e) < Rank(b.e)
                        /\ Under(b.id, 2 * a.id) => a.e = "enter"
                        /\ Under(b.id, 2 * a.id + 1) => a.e \in {"enter", "left"}
                        /\ Under(a.id, 2 * b.id) => b.e # "enter"
                        /\ Under(a.id, 2 * b.id + 1) => b.e \notin {"enter", "left"}
                        /\ ~RightOf(a.id, b.id)
            /\ \A i \in 1..n :
                    LET ev == log[c][i]
                    IN  /\ (ev.e = "return" /\ ev.err # NoErr /\ ev.id > 1 /\ i < n) =>
                                log[c][i + 1] = Event("return", ev.id \div 2, Null, Null, ev.err)
                        /\ ev.e = "operator" =>
                                /\ i < n
                                /\ log[c][i + 1].e = "return" /\ log[c][i + 1].id = ev.id
                                /\ Ret(log[c][i + 1].l, log[c][i + 1].err) =
                                        Operate(StageAt(ev.id), ev.l, ev.r, parameters[c])
            /\ (Finished(c) /\ n > 0) =>
                    /\ result[c] = ReturnOf(c, 1)
                    /\ Errors(c) # {} =>
                            LET first == CHOOSE i \in Errors(c) : \A k \in Errors(c) : i <= k
                            IN  /\ result[c] = Ret(Null, log[c][first].err)
                                /\ \A j \in first..n : log[c][j].e = "return"

\* in "(x op y) op z" the lookup of x failed: that error came back, and
\* neither y nor z was looked up
C9_Witness ==
    \E c \in callers :
        /\ Finished(c)
        /\ Happened(c, "operator", 4)
        /\ result[c] = Ret(Null, LookupError("x"))
        /\ expression.evaluationStages.leftStage.rightStage.symbol = VALUE
        /\ ~Happened(c, "enter", 5)
        /\ expression.evaluationStages.rightStage.symbol = VALUE
        /\ ~Happened(c, "enter", 3)

(***************************************************************************)
(* C4: no step of an evaluation changes the compiled expression (tokens,   *)
(* stage tree, source text, ChecksTypes, QueryDateFormat), and every       *)
(* finished call, whatever calls came before it, returns what the          *)
(* expression returns for its bindings.                                    *)
(***************************************************************************)
C4_Unchanged ==
    /\ [][expression' = expression]_vars
    /\ [](\A c \in callers : Finished(c) => result[c] = EvalAlone(expression, given[c]))

\* a call has succeeded right after a call on other bindings failed
C4_Witness ==
    \E c \in callers :
        /\ Finished(c)
        /\ previous[c] # Pending /\ previous[c].err # NoErr
        /\ result[c].err = NoErr
        /\ expression.ChecksTypes

\* what belongs to caller c's call
Own(c) == <<stack[c], parameters[c], given[c], result[c], log[c]>>

(***************************************************************************)
(* C5: when several callers evaluate one compiled expression at the same   *)
(* time, each with its own bindings or with nil, under every interleaving  *)
(* each call returns what it returns when run alone, and no step of one    *)
(* call writes the expression or anything that belongs to another call.    *)
(***************************************************************************)
C5_Isolation ==
    /\ [](\A c \in callers : Finished(c) => result[c] = EvalAlone(expression, given[c]))
    /\ [][/\ expression' = expression
          /\ \A c, d \in Callers : (c # d /\ Own(c)' # Own(c)) => Own(d)' = Own(d)]_vars

\* two calls that ran interleaved have finished with different results
C5_Witness ==
    /\ Finished(1) /\ Finished(2)
    /\ overlapped[1] /\ overlapped[2]
    /\ given[1] # given[2]
    /\ result[1] # result[2]


(***************************************************************************)
(* Construction.                                                           *)
(***************************************************************************)
PassOrder ==
    <<"parseTokens", "checkBalance", "checkExpressionSyntax", "optimizeTokens", "planStages">>

\* the passes of the entry point that was called, in the order it runs them
OrderOf(entry) == IF entry = "text" THEN PassOrder ELSE Tail(PassOrder)

\* the tokens the checks of the call were handed
Lexed == parseTokens(source.text, source.functions)
Handed == IF source.entry = "text" THEN Lexed.tokens ELSE source.tokens

\* the error pass p reports for the call's input, NoErr when it accepts it
ErrorOf(p) ==
    CASE p = "parseTokens" -> Lexed.err
      [] p = "checkBalance" -> checkBalance(Handed)
      [] p = "checkExpressionSyntax" -> checkExpressionSyntax(Handed)
      [] p = "optimizeTokens" -> optimizeTokens(Handed).err
      [] p = "planStages" -> planStages(optimizeTokens(Handed).tokens).err

\* C6: a constructor runs its passes in the fixed order and stops at the
\* first that fails: the passes that ran are a prefix of the order, all but
\* the last accepted the input, the caller gets nil and the error of the
\* last exactly when that one failed (so the balance error wins over the
\* adjacency error), and gets an expression only after all passes accepted,
\* with ChecksTypes true and the ISO date format.
C6_AllOrNothing ==
    source.entry # "" =>
        LET order == OrderOf(source.entry)
            n == Len(passes)
        IN  /\ n \in 1..Len(order)
            /\ passes = SubSeq(order, 1, n)
            /\ \A i \in 1..(n - 1) : ErrorOf(passes[i]) = NoErr
            /\ compiled.isNil <=> compiled.X2 # NoErr
            /\ compiled.isNil => compiled.X2 = ErrorOf(passes[n])
            /\ ~compiled.isNil =>
                    /\ n = Len(order)
                    /\ ErrorOf(passes[n]) = NoErr
                    /\ compiled.X1.ChecksTypes = TRUE
                    /\ compiled.X1.QueryDateFormat = isoDateFormat
                    /\ compiled.X1.tokens = optimizeTokens(Handed).tokens
                    /\ compiled.X1.evaluationStages =
                            planStages(optimizeTokens(Handed).tokens).stage

\* an input that is unbalanced and has an illegal transition was refused
\* with the balance error, and the adjacency check never ran
C6_Witness ==
    /\ source.entry = "text"
    /\ Lexed.err = NoErr
    /\ Len(Handed) > 1
    /\ checkBalance(Handed) = BalanceError
    /\ checkExpressionSyntax(Handed) # NoErr
    /\ compiled.isNil
    /\ compiled.X2 = BalanceError
    /\ passes = <<"parseTokens", "checkBalance">>

(***************************************************************************)
(* Vars.                                                                   *)
(***************************************************************************)
\* C7: Vars returns every distinct VARIABLE token's name exactly once, in
\* order of first appearance, and no name of a token of another kind.
C7_VarsDistinct ==
    (answer.method = "Vars") =>
        LET names == answer.value
            tokens == compiled.X1.tokens
            First(name) == CHOOSE i \in 1..Len(tokens) :
                /\ tokens[i].Kind = VARIABLE_KIND /\ tokens[i].Value = name
                /\ \A j \in 1..(i - 1) :
                        ~(tokens[j].Kind = VARIABLE_KIND /\ tokens[j].Value = name)
        IN  /\ \A i, j \in 1..Len(names) : names[i] = names[j] => i = j
            /\ {names[i] : i \in 1..Len(names)} = VarNames(compiled.X1)
            /\ \A i, j \in 1..Len(names) : i < j => First(names[i]) < First(names[j])

(***************************************************************************)
(* The two entry points.                                                   *)
(***************************************************************************)
\* what the token entry point returns for the tokens of the call's text
FromTokens == CompileTokens(Lexed.tokens)

ProbeBindings(this) == Bindings(this, {Absent, Null, Bool(TRUE), Float(1)})

\* C10: compiling a text succeeds exactly when tokenizing it succeeds and
\* compiling its tokens succeeds; the two expressions then have the same
\* tokens, stage tree, ChecksTypes and QueryDateFormat and evaluate alike,
\* and differ in String(): the text against the empty string.  Otherwise
\* they fail with the same error from the same pass.
C10_EntryPointsAgree ==
    (source.entry = "text") =>
        /\ ~compiled.isNil <=> (Lexed.err = NoErr /\ ~FromTokens.isNil)
        /\ ~compiled.isNil =>
                /\ Tokens(compiled.X1) = Tokens(FromTokens.X1)
                /\ compiled.X1.evaluationStages = FromTokens.X1.evaluationStages
                /\ compiled.X1.ChecksTypes = TRUE
                /\ FromTokens.X1.ChecksTypes = TRUE
                /\ compiled.X1.QueryDateFormat = FromTokens.X1.QueryDateFormat
                /\ \A b \in ProbeBindings(compiled.X1) :
                        EvalAlone(compiled.X1, MapParameters(b)) =
                            EvalAlone(FromTokens.X1, MapParameters(b))
                /\ String(compiled.X1) = source.text
                /\ String(FromTokens.X1) = <<>>
        /\ (compiled.isNil /\ Lexed.err = NoErr) =>
                /\ FromTokens.X2 = compiled.X2
                /\ FromTokens.passes = Tail(passes)
        /\ Lexed.err # NoErr => compiled.X2 = Lexed.err

\* a text with a variable that both entry points accept, asked for its
\* String(): the text, where the token entry point has the empty string
C10_Witness ==
    /\ source.entry = "text"
    /\ Len(source.text) > 1
    /\ ~compiled.isNil
    /\ ~FromTokens.isNil
    /\ VarNames(compiled.X1) # {}
    /\ answer.method = "String"
    /\ answer.value = source.text
    /\ answer.value # String(FromTokens.X1)

====
